---- MODULE Spec2Model ----
(***************************************************************************)
(* The OLAP cube pipeline of analytics_project/olap/cubing_sales_growth.py *)
(* as a state machine: a warehouse store, the output file, and one run of  *)
(* create_olap_cube at a time, stepping through ingest, column resolution, *)
(* derivation, aggregation, growth and the write.                          *)
(*                                                                         *)
(* Text is a sequence of one-character strings, so that strip, the regex   *)
(* truncation and title-casing are computed character by character.        *)
(* A scalar of a table is a record [t, s, n]: text, an integer, None (a    *)
(* NULL of an object column) or NaN (a NULL of a numeric column, or the    *)
(* fill of an unmatched left join).  A number of the cube is a record      *)
(* [k, p, q]: the rational p/q, NaN, or an infinity of sign p.             *)
(***************************************************************************)
EXTENDS Integers, Sequences, FiniteSets, TLC

(***************************************************************************)
(* Bounds of the model.                                                    *)
(***************************************************************************)
\* The longest sales table of an initial store, and the cap of appends.
MaxRows == 2
\* The most columns of a table handed to the schema resolver alone.
MaxCols == 2
\* The longest region text handed to the region normalization alone.
MaxLen == 3
\* The most cells of a cube handed to the growth calculator alone.
MaxCells == 3

(***************************************************************************)
(* Scalars.                                                                *)
(***************************************************************************)
Txt(s) == [t |-> "str", s |-> s, n |-> 0]
Int_(n) == [t |-> "num", s |-> <<>>, n |-> n]
None == [t |-> "none", s |-> <<>>, n |-> 0]
NaN == [t |-> "nan", s |-> <<>>, n |-> 0]
\* pd.NA / a dropped value of a string column
NA == [t |-> "na", s |-> <<>>, n |-> 0]

IsMissing(v) == v.t \in {"none", "nan", "na"}

\* Numbers of the derived rows and of the cube.
Rat(p, q) == [k |-> "num", p |-> p, q |-> q]
Whole(n) == Rat(n, 1)
NumNaN == [k |-> "nan", p |-> 0, q |-> 1]
Inf(sign) == [k |-> "inf", p |-> sign, q |-> 1]

(***************************************************************************)
(* Characters.                                                             *)
(***************************************************************************)
LowerLetters == <<"a", "e", "n", "o", "s", "t", "w", "x">>
UpperLetters == <<"A", "E", "N", "O", "S", "T", "W", "X">>
DigitChars == <<"0", "1", "2", "3", "4", "5", "6", "7", "8", "9">>

IndexIn(c, seq) == IF \E i \in DOMAIN seq : seq[i] = c
                   THEN CHOOSE i \in DOMAIN seq : seq[i] = c
                   ELSE 0

IsLower(c) == IndexIn(c, LowerLetters) # 0
IsUpper(c) == IndexIn(c, UpperLetters) # 0
IsCased(c) == IsLower(c) \/ IsUpper(c)
IsSpace(c) == c \in {" ", "\t", "\n"}
IsDigit(c) == IndexIn(c, DigitChars) # 0

\* str.upper / str.lower of one character
Upper(c) == IF IsLower(c) THEN UpperLetters[IndexIn(c, LowerLetters)] ELSE c
Lower(c) == IF IsUpper(c) THEN LowerLetters[IndexIn(c, UpperLetters)] ELSE c

\* The decimal digits of a natural number, as str() prints them.
RECURSIVE Digits(_)
Digits(n) == IF n < 10 THEN <<DigitChars[n + 1]>>
             ELSE Digits(n \div 10) \o <<DigitChars[(n % 10) + 1]>>

\* str() of an integer.
IntStr(n) == IF n < 0 THEN <<"-">> \o Digits(-n) ELSE Digits(n)

\* The characters joined into one string (for reading a cell's labels).
RECURSIVE Text(_)
Text(s) == IF s = <<>> THEN "" ELSE Head(s) \o Text(Tail(s))

(***************************************************************************)
(* Series.astype(str), .str.strip(), .replace, .str.replace, .str.title()  *)
(* on one value; a missing value (pd.NA) passes through the .str methods.  *)
(***************************************************************************)
\* astype(str): text stays, an integer prints its digits, None and NaN
\* become the texts "None" and "nan".
AsTypeStr(v) ==
  CASE v.t = "str" -> v.s
    [] v.t = "num" -> IntStr(v.n)
    [] v.t = "none" -> <<"N", "o", "n", "e">>
    [] v.t = "nan" -> <<"n", "a", "n">>
    [] OTHER -> <<"<", "N", "A", ">">>

RECURSIVE LStrip(_)
LStrip(s) == IF s # <<>> /\ IsSpace(Head(s)) THEN LStrip(Tail(s)) ELSE s

RECURSIVE RStrip(_)
RStrip(s) == IF s # <<>> /\ IsSpace(s[Len(s)])
             THEN RStrip(SubSeq(s, 1, Len(s) - 1))
             ELSE s

Strip(s) == RStrip(LStrip(s))

\* What is left of s from its first line break on ("." matches no newline).
RECURSIVE DropToNewline(_)
DropToNewline(s) == IF s = <<>> \/ Head(s) = "\n" THEN s
                    ELSE DropToNewline(Tail(s))

\* re.sub(r"[_\-].*", "", s): every match, scanning left to right.
RECURSIVE RegexCut(_)
RegexCut(s) ==
  IF s = <<>> THEN <<>>
  ELSE IF Head(s) \in {"_", "-"} THEN RegexCut(DropToNewline(Tail(s)))
  ELSE <<Head(s)>> \o RegexCut(Tail(s))

\* str.title(): a cased character is upper-cased after an uncased one (or
\* at the start) and lower-cased after a cased one.
RECURSIVE TitleFrom(_, _)
TitleFrom(s, prevCased) ==
  IF s = <<>> THEN <<>>
  ELSE <<IF prevCased THEN Lower(Head(s)) ELSE Upper(Head(s))>>
       \o TitleFrom(Tail(s), IsCased(Head(s)))

Title(s) == TitleFrom(s, FALSE)

\* The region label of one source value: lines 211-218 (and 220-227).
NormalizeRegion(v) ==
  LET stripped == Strip(AsTypeStr(v))
  IN IF stripped = <<"n", "a", "n">> THEN NA
     ELSE Txt(Title(RegexCut(stripped)))

(***************************************************************************)
(* pd.to_numeric(..., errors="coerce") on one value.                       *)
(***************************************************************************)
DigitVal(c) == IndexIn(c, DigitChars) - 1

RECURSIVE DigitsValue(_)
DigitsValue(s) == IF s = <<>> THEN 0
                  ELSE 10 * DigitsValue(SubSeq(s, 1, Len(s) - 1)) + DigitVal(s[Len(s)])

AllDigits(s) == s # <<>> /\ \A i \in DOMAIN s : IsDigit(s[i])

\* An optionally signed run of digits, surrounding whitespace ignored.
IsIntText(s) ==
  LET u == Strip(s)
  IN \/ AllDigits(u)
     \/ u # <<>> /\ Head(u) \in {"-", "+"} /\ AllDigits(Tail(u))

IntTextValue(s) ==
  LET u == Strip(s)
  IN IF Head(u) = "-" THEN 0 - DigitsValue(Tail(u))
     ELSE IF Head(u) = "+" THEN DigitsValue(Tail(u))
     ELSE DigitsValue(u)

ToNumeric(v) ==
  CASE v.t = "num" -> Whole(v.n)
    [] v.t = "str" /\ IsIntText(v.s) -> Whole(IntTextValue(v.s))
    [] OTHER -> NumNaN

\* Series.fillna(0)
FillNa0(x) == IF x.k = "nan" THEN Whole(0) ELSE x

(***************************************************************************)
(* Arithmetic of the derived columns (IEEE: NaN propagates).               *)
(***************************************************************************)
Mul(x, y) == IF x.k = "nan" \/ y.k = "nan" THEN NumNaN
             ELSE Rat(x.p * y.p, x.q * y.q)

Sub(x, y) == IF x.k = "nan" \/ y.k = "nan" THEN NumNaN
             ELSE Rat(x.p * y.q - y.p * x.q, x.q * y.q)

\* a + b where NaN counts as absent (the skipna of a groupby sum).
AddSkipNa(x, y) == IF y.k = "nan" THEN x
                   ELSE IF x.k = "nan" THEN y
                   ELSE Rat(x.p * y.q + y.p * x.q, x.q * y.q)

IsZero(x) == x.k = "num" /\ x.p = 0

\* x / y for a non-zero y.
Div(x, y) == IF x.k = "nan" \/ y.k = "nan" THEN NumNaN
             ELSE IF y.p * x.q < 0 THEN Rat(0 - x.p * y.q, 0 - y.p * x.q)
             ELSE Rat(x.p * y.q, y.p * x.q)

\* Series.round(2): the nearest hundredth, ties to the even one; NaN and
\* the infinities stay.
Round2(x) ==
  IF x.k # "num" THEN x
  ELSE LET n == 100 * x.p
           fl == n \div x.q
           r == n % x.q
           h == IF 2 * r < x.q THEN fl
                ELSE IF 2 * r > x.q THEN fl + 1
                ELSE IF fl % 2 = 0 THEN fl ELSE fl + 1
       IN Rat(h, 100)

(***************************************************************************)
(* pd.to_datetime(..., errors="coerce"), .dt.to_period("Q").astype(str),   *)
(* and pd.PeriodIndex(labels, freq="Q").                                   *)
(***************************************************************************)
NaT == [ok |-> FALSE, y |-> 0, m |-> 0, d |-> 0]

IsLeap(y) == (y % 4 = 0 /\ y % 100 # 0) \/ y % 400 = 0

DaysIn(y, m) == IF m = 2 THEN (IF IsLeap(y) THEN 29 ELSE 28)
                ELSE IF m \in {4, 6, 9, 11} THEN 30 ELSE 31

\* An ISO date text YYYY-MM-DD naming a day of the calendar.
IsIsoDate(s) ==
  /\ Len(s) = 10
  /\ \A i \in {1, 2, 3, 4, 6, 7, 9, 10} : IsDigit(s[i])
  /\ s[5] = "-" /\ s[8] = "-"
  /\ LET y == DigitsValue(SubSeq(s, 1, 4))
         m == DigitsValue(SubSeq(s, 6, 7))
         d == DigitsValue(SubSeq(s, 9, 10))
     IN m \in 1..12 /\ d \in 1..DaysIn(y, m)

\* Text that is not a date, None and NaN become NaT; an integer counts
\* nanoseconds from 1970-01-01 (the model's integers stay within that day).
ToDatetime(v) ==
  CASE v.t = "str" /\ IsIsoDate(Strip(v.s)) ->
         LET s == Strip(v.s)
         IN [ok |-> TRUE, y |-> DigitsValue(SubSeq(s, 1, 4)),
             m |-> DigitsValue(SubSeq(s, 6, 7)), d |-> DigitsValue(SubSeq(s, 9, 10))]
    [] v.t = "num" -> [ok |-> TRUE, y |-> 1970, m |-> 1, d |-> 1]
    [] OTHER -> NaT

NaTLabel == <<"N", "a", "T">>

\* The quarter label of a timestamp: "2024Q1", or "NaT".
QuarterLabel(dt) ==
  IF dt.ok THEN Txt(Digits(dt.y) \o <<"Q">> \o Digits(((dt.m - 1) \div 3) + 1))
  ELSE Txt(NaTLabel)

NoPeriod == [ok |-> FALSE, nat |-> FALSE, y |-> 0, q |-> 0]
NaTPeriod == [ok |-> TRUE, nat |-> TRUE, y |-> 0, q |-> 0]

\* One label as a quarterly period: "YYYYQn" or "nQYYYY", or NaT for "NaT"
\* and for a missing label; ok is FALSE for a label PeriodIndex rejects.
ParsePeriod(v) ==
  CASE IsMissing(v) -> NaTPeriod
    [] v.t = "str" /\ v.s = NaTLabel -> NaTPeriod
    [] v.t = "str" /\ Len(v.s) = 6 /\ AllDigits(SubSeq(v.s, 1, 4)) /\ v.s[5] = "Q"
         /\ v.s[6] \in {"1", "2", "3", "4"} ->
         [ok |-> TRUE, nat |-> FALSE, y |-> DigitsValue(SubSeq(v.s, 1, 4)),
          q |-> DigitVal(v.s[6])]
    [] v.t = "str" /\ Len(v.s) = 6 /\ v.s[1] \in {"1", "2", "3", "4"} /\ v.s[2] = "Q"
         /\ AllDigits(SubSeq(v.s, 3, 6)) ->
         [ok |-> TRUE, nat |-> FALSE, y |-> DigitsValue(SubSeq(v.s, 3, 6)),
          q |-> DigitVal(v.s[1])]
    [] OTHER -> NoPeriod

(***************************************************************************)
(* Orders used by groupby and sort_values: text by code point, missing     *)
(* values last.                                                            *)
(***************************************************************************)
CodeOrder == <<"\t", "\n", " ", "+", "-", "0", "1", "2", "3", "4", "5", "6", "7",
               "8", "9", "<", ">", "A", "E", "N", "O", "Q", "S", "T", "W", "X",
               "_", "a", "e", "n", "o", "s", "t", "w", "x">>

Code(c) == IndexIn(c, CodeOrder)

RECURSIVE SeqLess(_, _)
SeqLess(a, b) ==
  IF b = <<>> THEN FALSE
  ELSE IF a = <<>> THEN TRUE
  ELSE IF Code(Head(a)) # Code(Head(b)) THEN Code(Head(a)) < Code(Head(b))
  ELSE SeqLess(Tail(a), Tail(b))

\* v before w among the labels of one column (NaN/None/NA sort last).
LabelLess(v, w) ==
  IF IsMissing(v) THEN FALSE
  ELSE IF IsMissing(w) THEN TRUE
  ELSE SeqLess(v.s, w.s)

LabelSame(v, w) == (IsMissing(v) /\ IsMissing(w)) \/ (~IsMissing(v) /\ v = w)

PeriodLess(a, b) ==
  IF a.nat THEN FALSE
  ELSE IF b.nat THEN TRUE
  ELSE a.y < b.y \/ (a.y = b.y /\ a.q < b.q)

(***************************************************************************)
(* Tables.  A table is [cols: a set of column names, rows: a sequence of   *)
(* functions from cols to scalars].  NoName stands for Python's None where *)
(* the code returns a table or column name or None.                        *)
(***************************************************************************)
NoName == ""

EmptyFrame == [cols |-> {}, rows |-> <<>>]

\* DataFrame.empty: no rows or no columns.
IsEmpty(t) == t.rows = <<>> \/ t.cols = {}

\* str.lower() of a table name (the names the stores of the model use).
LowerName(n) ==
  CASE n = "Sales" -> "sales"
    [] n = "SALE" -> "sale"
    [] n = "Products" -> "products"
    [] OTHER -> n

\* str.strip() of a column name (the padded names the stores of the model
\* use; a name without surrounding whitespace is itself).
StripName(c) ==
  CASE c = " region " -> "region"
    [] c = "amount " -> "amount"
    [] OTHER -> c

MinOf(S) == CHOOSE x \in S : \A y \in S : x <= y

\* _find_table: the first candidate that names a table, case-insensitively.
FindTable(names, candidates) ==
  LET tables == {LowerName(n) : n \in names}
      hits == {i \in DOMAIN candidates :
                 candidates[i] # "" /\ LowerName(candidates[i]) \in tables}
  IN IF hits = {} THEN NoName ELSE candidates[MinOf(hits)]

\* a or b, for names
OrElse(a, b) == IF a # NoName THEN a ELSE b

\* pd.read_sql_query("SELECT * FROM <name>"): SQLite matches the table name
\* case-insensitively.
ReadTable(db, name) ==
  db[CHOOSE n \in DOMAIN db : LowerName(n) = LowerName(name)]

\* df.columns = [c.strip() for c in df.columns]
StripColumns(t) ==
  [cols |-> {StripName(c) : c \in t.cols},
   rows |-> [i \in DOMAIN t.rows |->
               [c \in {StripName(d) : d \in t.cols} |->
                  t.rows[i][CHOOSE d \in t.cols : StripName(d) = c]]]]

(***************************************************************************)
(* DataFrame.merge(right, on=key, how="left", suffixes=("", suffix)).      *)
(***************************************************************************)
RightName(left, right, key, suffix, c) ==
  IF c \in left.cols /\ c # key THEN c \o suffix ELSE c

MergedCols(left, right, key, suffix) ==
  left.cols \cup {RightName(left, right, key, suffix, c) : c \in right.cols \ {key}}

\* One left row joined with one right row (r = "none": no match, NaN fill).
JoinRow(left, right, key, suffix, l, matched, r) ==
  [c \in MergedCols(left, right, key, suffix) |->
     IF c \in left.cols THEN l[c]
     ELSE IF matched
          THEN r[CHOOSE d \in right.cols \ {key} :
                   RightName(left, right, key, suffix, d) = c]
          ELSE NaN]

RowsFor(left, right, key, suffix, l) ==
  LET hits == SelectSeq(right.rows, LAMBDA r : r[key] = l[key])
  IN IF hits = <<>> THEN <<JoinRow(left, right, key, suffix, l, FALSE, l)>>
     ELSE [j \in DOMAIN hits |-> JoinRow(left, right, key, suffix, l, TRUE, hits[j])]

RECURSIVE MergeRows(_, _, _, _, _)
MergeRows(left, right, key, suffix, lrows) ==
  IF lrows = <<>> THEN <<>>
  ELSE RowsFor(left, right, key, suffix, Head(lrows))
       \o MergeRows(left, right, key, suffix, Tail(lrows))

LeftMerge(left, right, key, suffix) ==
  [cols |-> MergedCols(left, right, key, suffix),
   rows |-> MergeRows(left, right, key, suffix, left.rows)]

\* Lines 86-104 of ingest_warehouse: the merged table.
MergeOne(merged, ref, key, suffix) ==
  IF IsEmpty(ref) THEN merged
  ELSE IF key \in merged.cols /\ key \in ref.cols
       THEN LeftMerge(merged, ref, key, suffix)
       ELSE merged

Merged(sales, products, customers) ==
  MergeOne(MergeOne(sales, products, "product_id", "_prod"),
           customers, "customer_id", "_cust")

\* The warnings of lines 94 and 102.
MergeWarnings(sales, products, customers) ==
  LET afterProd == MergeOne(sales, products, "product_id", "_prod")
      noProdKey == ~IsEmpty(products)
                   /\ ~("product_id" \in sales.cols /\ "product_id" \in products.cols)
      noCustKey == ~IsEmpty(customers)
                   /\ ~("customer_id" \in afterProd.cols
                        /\ "customer_id" \in customers.cols)
  IN (IF noProdKey THEN {"warning: no product_id key"} ELSE {})
     \cup (IF noCustKey THEN {"warning: no customer_id key"} ELSE {})

(***************************************************************************)
(* The schema resolver: _first_existing_column and _extract_columns, with  *)
(* the candidate lists of lines 120-138.                                   *)
(***************************************************************************)
SaleDateCandidates == <<"sale_date", "SaleDate", "date", "saleDate", "transaction_date">>
UnitsCandidates == <<"units", "quantity", "quantity_sold", "units_sold", "qty">>
SaleAmountCandidates ==
  <<"sale_amount", "SaleAmount", "amount", "gross_amount", "saleamount", "total">>
CogsCandidates == <<"cogs", "cost_of_goods_sold", "cost", "unit_cost">>
ProductNameCandidates == <<"product_name", "product", "name">>
ProductNameProdCandidates == <<"product_name_prod", "name_prod">>
UnitPriceCandidates ==
  <<"unitprice", "unit_price", "price", "unitPrice", "UnitPrice", "price_prod">>
RegionCandidates ==
  <<"region", "customer_region", "customerregion", "region_name", "region_cust">>
RegionProdCandidates == <<"region_prod">>

\* (mutant) the last candidate that exists wins
FirstExistingColumnLast(columns, candidates) ==
  LET hits == {i \in DOMAIN candidates : candidates[i] \in columns}
  IN IF hits = {} THEN NoName
     ELSE candidates[CHOOSE i \in hits : \A j \in hits : j <= i]

FirstExistingColumn(columns, candidates) ==
  LET hits == {i \in DOMAIN candidates : candidates[i] \in columns}
  IN IF hits = {} THEN NoName ELSE candidates[MinOf(hits)]

ExtractColumns(columns) ==
  [sale_date_col |-> FirstExistingColumn(columns, SaleDateCandidates),
   units_col |-> FirstExistingColumn(columns, UnitsCandidates),
   sale_amount_col |-> FirstExistingColumn(columns, SaleAmountCandidates),
   cogs_col |-> FirstExistingColumn(columns, CogsCandidates),
   product_name_col |->
     OrElse(FirstExistingColumn(columns, ProductNameCandidates),
            FirstExistingColumn(columns, ProductNameProdCandidates)),
   product_unitprice_col |-> FirstExistingColumn(columns, UnitPriceCandidates),
   region_col |->
     OrElse(FirstExistingColumn(columns, RegionCandidates),
            FirstExistingColumn(columns, RegionProdCandidates))]

NoColumns == ExtractColumns({})

(***************************************************************************)
(* The metric deriver: _add_sale_quarter ... _add_region on one row, and   *)
(* _prepare_dataframe on the table.  A derived row keeps the seven columns *)
(* the aggregation reads.                                                  *)
(***************************************************************************)
\* _add_sale_quarter
SaleQuarter(row, c) ==
  IF c.sale_date_col # NoName THEN QuarterLabel(ToDatetime(row[c.sale_date_col]))
  ELSE NA

\* (mutant) without a quantity column the units are 0
UnitsSoldDefaultsZero(row, c) ==
  IF c.units_col # NoName THEN FillNa0(ToNumeric(row[c.units_col]))
  ELSE Whole(0)

\* _add_units_sold
UnitsSold(row, c) ==
  IF c.units_col # NoName THEN FillNa0(ToNumeric(row[c.units_col]))
  ELSE Whole(1)

\* (mutant) the unit price is tried before the amount
SalesRevenuePrefersPrice(row, c) ==
  IF c.product_unitprice_col # NoName
  THEN Mul(FillNa0(ToNumeric(row[c.product_unitprice_col])), UnitsSold(row, c))
  ELSE IF c.sale_amount_col # NoName
       THEN FillNa0(ToNumeric(row[c.sale_amount_col]))
       ELSE Whole(0)

\* _add_sales_revenue
SalesRevenue(row, c) ==
  IF c.sale_amount_col # NoName THEN FillNa0(ToNumeric(row[c.sale_amount_col]))
  ELSE IF c.product_unitprice_col # NoName
       THEN Mul(FillNa0(ToNumeric(row[c.product_unitprice_col])), UnitsSold(row, c))
       ELSE Whole(0)

\* (mutant) the cost column is tried before the unit price
CogsTotalPrefersCost(row, c) ==
  IF c.cogs_col # NoName THEN FillNa0(ToNumeric(row[c.cogs_col]))
  ELSE IF c.product_unitprice_col # NoName
       THEN Mul(FillNa0(ToNumeric(row[c.product_unitprice_col])), UnitsSold(row, c))
       ELSE NumNaN

\* _add_cogs_total
CogsTotal(row, c) ==
  IF c.product_unitprice_col # NoName
  THEN Mul(FillNa0(ToNumeric(row[c.product_unitprice_col])), UnitsSold(row, c))
  ELSE IF c.cogs_col # NoName THEN FillNa0(ToNumeric(row[c.cogs_col]))
       ELSE NumNaN

\* _add_gross_profit
GrossProfit(row, c) == Sub(SalesRevenue(row, c), CogsTotal(row, c))

\* (mutant) the last default is an empty text, not None
ProductNameDefaultsEmpty(row, columns, c) ==
  IF c.product_name_col # NoName /\ c.product_name_col \in columns
  THEN Txt(AsTypeStr(row[c.product_name_col]))
  ELSE IF "product_id" \in columns THEN Txt(AsTypeStr(row["product_id"]))
       ELSE Txt(<<>>)

\* _add_product_name
ProductName(row, columns, c) ==
  IF c.product_name_col # NoName /\ c.product_name_col \in columns
  THEN Txt(AsTypeStr(row[c.product_name_col]))
  ELSE IF "product_id" \in columns THEN Txt(AsTypeStr(row["product_id"]))
       ELSE None

\* (mutant) the suffix after "_" or "-" is kept
RegionNoTruncate(row, columns, c) ==
  LET src == IF c.region_col # NoName /\ c.region_col \in columns THEN c.region_col
             ELSE IF "customer_region" \in columns THEN "customer_region"
             ELSE NoName
      stripped == Strip(AsTypeStr(row[src]))
  IN IF src = NoName \/ stripped = <<"n", "a", "n">> THEN NA
     ELSE Txt(Title(stripped))

\* (mutant) without a region column the rows get a label of their own
RegionDefaultsLabel(row, columns, c) ==
  IF c.region_col # NoName /\ c.region_col \in columns
  THEN NormalizeRegion(row[c.region_col])
  ELSE IF "customer_region" \in columns THEN NormalizeRegion(row["customer_region"])
       ELSE Txt(<<"X">>)

\* _add_region, lines 210-229: the label before the filter
Region(row, columns, c) ==
  IF c.region_col # NoName /\ c.region_col \in columns
  THEN NormalizeRegion(row[c.region_col])
  ELSE IF "customer_region" \in columns THEN NormalizeRegion(row["customer_region"])
       ELSE NA

DeriveRow(row, columns, c) ==
  [product_name |-> ProductName(row, columns, c),
   region |-> Region(row, columns, c),
   sale_quarter |-> SaleQuarter(row, c),
   units_sold |-> UnitsSold(row, c),
   sales_revenue |-> SalesRevenue(row, c),
   cogs_total |-> CogsTotal(row, c),
   gross_profit |-> GrossProfit(row, c)]

\* (mutant) only dropna: an empty label is kept
KeepsRegionKeepsEmpty(r) == ~IsMissing(r.region)

\* _add_region, lines 232-233: dropna(subset=["region"]), then region != ""
KeepsRegion(r) == ~IsMissing(r.region) /\ r.region.s # <<>>

\* _prepare_dataframe
PrepareDataframe(t, c) ==
  SelectSeq([i \in DOMAIN t.rows |-> DeriveRow(t.rows[i], t.cols, c)], KeepsRegion)

\* The warning of line 155.
HasBadDates(t, c) ==
  c.sale_date_col # NoName
  /\ \E i \in DOMAIN t.rows : ~ToDatetime(t.rows[i][c.sale_date_col]).ok

(***************************************************************************)
(* The cube aggregator: _aggregate_cube.                                   *)
(***************************************************************************)
KeyOf(r) == <<r.product_name, r.region, r.sale_quarter>>

SameKey(a, b) == \A i \in 1..3 : LabelSame(a[i], b[i])

\* groupby sorts its keys column by column.
KeyLess(a, b) ==
  \/ LabelLess(a[1], b[1])
  \/ LabelSame(a[1], b[1]) /\ LabelLess(a[2], b[2])
  \/ LabelSame(a[1], b[1]) /\ LabelSame(a[2], b[2]) /\ LabelLess(a[3], b[3])

RECURSIVE SortKeys(_)
SortKeys(S) ==
  IF S = {} THEN <<>>
  ELSE LET m == CHOOSE x \in S : \A y \in S \ {x} : KeyLess(x, y)
       IN <<m>> \o SortKeys(S \ {m})

\* The sum of one column over the rows of one group (NaN skipped).
RECURSIVE SumOver(_, _, _)
SumOver(rows, key, col) ==
  IF rows = <<>> THEN Whole(0)
  ELSE LET rest == SumOver(Tail(rows), key, col)
       IN IF SameKey(KeyOf(Head(rows)), key) THEN AddSkipNa(rest, Head(rows)[col])
          ELSE rest

\* (mutant) no guard on the divisor
PerUnitDividesAlways(total, units) ==
  IF IsZero(units) THEN Inf(1) ELSE Div(total, units)

\* Lines 262-273: the per-unit averages of one group.
PerUnit(total, units) ==
  IF ~IsZero(units) /\ units.k # "nan" THEN Div(total, units) ELSE NumNaN

GroupCell(rows, key) ==
  LET units == SumOver(rows, key, "units_sold")
      revenue == SumOver(rows, key, "sales_revenue")
      profit == SumOver(rows, key, "gross_profit")
  IN [product_name |-> key[1],
      region |-> key[2],
      sale_quarter |-> key[3],
      units_sold |-> units,
      total_sales_revenue |-> revenue,
      total_cogs |-> SumOver(rows, key, "cogs_total"),
      gross_profit |-> profit,
      average_selling_price |-> PerUnit(revenue, units),
      average_gross_profit |-> PerUnit(profit, units)]

\* (mutant) the rows of the unknown quarter are left out of the groups
AggregateCubeDropsUnknown(rows) ==
  LET keys == SortKeys({KeyOf(rows[i]) : i \in DOMAIN rows} \
                         {k \in {KeyOf(rows[i]) : i \in DOMAIN rows} :
                            k[3] = Txt(NaTLabel)})
  IN [i \in DOMAIN keys |-> GroupCell(rows, keys[i])]

\* The cube of a non-empty derived table: one cell per key, keys in order.
AggregateCube(rows) ==
  LET keys == SortKeys({KeyOf(rows[i]) : i \in DOMAIN rows})
  IN [i \in DOMAIN keys |-> GroupCell(rows, keys[i])]

(***************************************************************************)
(* The growth calculator: _compute_growth_and_finalize.                    *)
(***************************************************************************)
\* Line 282 succeeds: every label parses as a quarterly period.
AllPeriodsParse(cells) == \A i \in DOMAIN cells : ParsePeriod(cells[i].sale_quarter).ok

SameSeries(a, b) ==
  LabelSame(a.product_name, b.product_name) /\ LabelSame(a.region, b.region)

\* The sort key of line 283 (periods) or of line 286 (raw labels).
CellLess(a, b, byPeriod) ==
  \/ LabelLess(a.product_name, b.product_name)
  \/ LabelSame(a.product_name, b.product_name) /\ LabelLess(a.region, b.region)
  \/ /\ SameSeries(a, b)
     /\ IF byPeriod
        THEN PeriodLess(ParsePeriod(a.sale_quarter), ParsePeriod(b.sale_quarter))
        ELSE LabelLess(a.sale_quarter, b.sale_quarter)

\* sort_values: the indices of cells in sorted order, ties in input order.
RECURSIVE SortIndices(_, _, _)
SortIndices(cells, left, byPeriod) ==
  IF left = {} THEN <<>>
  ELSE LET m == CHOOSE i \in left : \A j \in left \ {i} :
                  \/ CellLess(cells[i], cells[j], byPeriod)
                  \/ ~CellLess(cells[j], cells[i], byPeriod) /\ i < j
       IN <<m>> \o SortIndices(cells, left \ {m}, byPeriod)

\* (mutant) the quarter order is the order of the periods whether or not
\* every label parses
SortCellsByPeriodAlways(cells) ==
  LET order == SortIndices(cells, DOMAIN cells, TRUE)
  IN [i \in DOMAIN order |-> cells[order[i]]]

SortCells(cells) ==
  LET order == SortIndices(cells, DOMAIN cells, AllPeriodsParse(cells))
  IN [i \in DOMAIN order |-> cells[order[i]]]

\* Series.pct_change() * 100 at one position of a series: NaN at the first
\* position, current / previous - 1 after it (IEEE division by zero).
PctChange(prev, cur) ==
  IF IsZero(prev)
  THEN IF IsZero(cur) THEN NumNaN ELSE Inf(IF cur.p * cur.q > 0 THEN 1 ELSE 0 - 1)
  ELSE Div(Rat(100 * (cur.p * prev.q - prev.p * cur.q), prev.q * cur.q), prev)

\* (mutant) pct_change over the whole column, not per series
GrowthAtCrossesSeries(cells, i) ==
  IF i = 1 THEN NumNaN
  ELSE PctChange(cells[i - 1].total_sales_revenue, cells[i].total_sales_revenue)

\* Lines 290-294 at row i of the sorted cube.  groupby drops the rows whose
\* product_name or region is missing, so they get no value (NaN).
GrowthAt(cells, i) ==
  IF IsMissing(cells[i].product_name) \/ IsMissing(cells[i].region) THEN NumNaN
  ELSE IF i = 1 \/ ~SameSeries(cells[i - 1], cells[i]) THEN NumNaN
  ELSE PctChange(cells[i - 1].total_sales_revenue, cells[i].total_sales_revenue)

\* Lines 296-330: rounding, the fill of the growth column, the output columns.
FinalCell(cells, i) ==
  [product_name |-> cells[i].product_name,
   region |-> cells[i].region,
   sale_quarter |-> cells[i].sale_quarter,
   units_sold |-> Round2(cells[i].units_sold),
   total_sales_revenue |-> Round2(cells[i].total_sales_revenue),
   sales_growth_pct |-> FillNa0(Round2(GrowthAt(cells, i))),
   total_cogs |-> Round2(cells[i].total_cogs),
   gross_profit |-> Round2(cells[i].gross_profit),
   average_selling_price |-> Round2(cells[i].average_selling_price),
   average_gross_profit |-> Round2(cells[i].average_gross_profit)]

ComputeGrowthAndFinalize(cells) ==
  LET sorted == SortCells(cells)
  IN [i \in DOMAIN sorted |-> FinalCell(sorted, i)]

(***************************************************************************)
(* The stores the runs read.  A sales table is a sequence of sample rows   *)
(* seen through a schema (column name -> field of the sample row).         *)
(***************************************************************************)
\* The two sales of the scenario of the specification.
ScenarioRow1 ==
  [pid |-> Int_(1), amt |-> Int_(100), reg |-> Txt(<<"w", "e", "s", "t", "_", "1">>),
   dt |-> Txt(<<"2", "0", "2", "4", "-", "0", "1", "-", "1", "5">>),
   qty |-> Int_(2), price |-> Int_(40), cost |-> Int_(30), cid |-> Int_(7),
   pname |-> Txt(<<"t", "e", "a">>)]

ScenarioRow2 ==
  [pid |-> Int_(1), amt |-> Int_(150), reg |-> Txt(<<"W", "e", "s", "t">>),
   dt |-> Txt(<<"2", "0", "2", "4", "-", "0", "4", "-", "2", "0">>),
   qty |-> Int_(7), price |-> Int_(50), cost |-> Int_(45), cid |-> Int_(7),
   pname |-> Txt(<<"t", "e", "a">>)]

\* No revenue, no units, no cost.
ZeroRow ==
  [pid |-> Int_(1), amt |-> Int_(0), reg |-> Txt(<<" ", "w", "e", "s", "t", " ">>),
   dt |-> Txt(<<"2", "0", "2", "4", "-", "0", "7", "-", "0", "1">>),
   qty |-> Int_(0), price |-> Int_(50), cost |-> None, cid |-> Int_(8),
   pname |-> Txt(<<"t", "e", "a">>)]

\* Text where numbers are expected.
TextRow ==
  [pid |-> Int_(1), amt |-> Txt(<<"x">>), reg |-> Txt(<<"W", "e", "s", "t">>),
   dt |-> Txt(<<"2", "0", "2", "3", "-", "1", "0", "-", "0", "5">>),
   qty |-> Txt(<<"x">>), price |-> Txt(<<"x">>), cost |-> Txt(<<"x">>),
   cid |-> Int_(8), pname |-> Txt(<<"t", "e", "a">>)]

\* The region is the text "nan", the date NULL.
NanRegionRow ==
  [pid |-> Int_(2), amt |-> Int_(80), reg |-> Txt(<<"n", "a", "n">>),
   dt |-> None,
   qty |-> Int_(1), price |-> Int_(80), cost |-> Int_(60), cid |-> Int_(9),
   pname |-> Txt(<<"o", "a", "t">>)]

\* The region and the product name are NULL, the date is no date, the
\* amount a refund.
NullRegionRow ==
  [pid |-> Int_(1), amt |-> Int_(0 - 60), reg |-> None,
   dt |-> Txt(<<"s", "o", "o", "n">>),
   qty |-> Int_(3), price |-> Int_(20), cost |-> Int_(10), cid |-> Int_(7),
   pname |-> None]

\* The region starts with an underscore.
CutRegionRow ==
  [pid |-> Int_(2), amt |-> Int_(70), reg |-> Txt(<<"_", "x">>),
   dt |-> Txt(<<"2", "0", "2", "4", "-", "0", "2", "-", "3", "0">>),
   qty |-> Int_(1), price |-> Int_(70), cost |-> Int_(50), cid |-> Int_(8),
   pname |-> Txt(<<"o", "a", "t">>)]

SampleRows == {ScenarioRow1, ScenarioRow2, ZeroRow, TextRow, NanRegionRow,
               NullRegionRow, CutRegionRow}

\* The row sequences of at most n sample rows.
RowSeqs(n) == UNION {[1..k -> SampleRows] : k \in 0..n}

ScenarioSchema ==
  [c \in {"product_id", "amount", "region", "date"} |->
     CASE c = "product_id" -> "pid" [] c = "amount" -> "amt"
       [] c = "region" -> "reg" [] OTHER -> "dt"]

PriceSchema ==
  [c \in {"product_id", "quantity", "unit_price", "unit_cost", "region",
          "sale_date"} |->
     CASE c = "product_id" -> "pid" [] c = "quantity" -> "qty"
       [] c = "unit_price" -> "price" [] c = "unit_cost" -> "cost"
       [] c = "region" -> "reg" [] OTHER -> "dt"]

PaddedSchema ==
  [c \in {"product_id", "amount ", "qty", "cost", " region ", "transaction_date"} |->
     CASE c = "product_id" -> "pid" [] c = "amount " -> "amt" [] c = "qty" -> "qty"
       [] c = "cost" -> "cost" [] c = " region " -> "reg" [] OTHER -> "dt"]

NoRegionSchema ==
  [c \in {"product_id", "amount", "date"} |->
     CASE c = "product_id" -> "pid" [] c = "amount" -> "amt" [] OTHER -> "dt"]

NameSchema ==
  [c \in {"name", "total", "region_name"} |->
     CASE c = "name" -> "pname" [] c = "total" -> "amt" [] OTHER -> "reg"]

NoProductSchema ==
  [c \in {"amount", "customer_region", "date"} |->
     CASE c = "amount" -> "amt" [] c = "customer_region" -> "reg" [] OTHER -> "dt"]

KeyedSchema ==
  [c \in {"customer_id", "product_id", "quantity", "date"} |->
     CASE c = "customer_id" -> "cid" [] c = "product_id" -> "pid"
       [] c = "quantity" -> "qty" [] OTHER -> "dt"]

PlainSchemas == {ScenarioSchema, PriceSchema, PaddedSchema, NoRegionSchema,
                 NameSchema, NoProductSchema}

TableOf(schema, rs) ==
  [cols |-> DOMAIN schema,
   rows |-> [i \in DOMAIN rs |-> [c \in DOMAIN schema |-> rs[i][schema[c]]]]]

\* The reference tables.
ProductsKeyed ==
  [cols |-> {"product_id", "product_name", "unit_price"},
   rows |-> << [product_id |-> Int_(1), product_name |-> Txt(<<"t", "e", "a">>),
                unit_price |-> Int_(40)] >>]

ProductsUnkeyed ==
  [cols |-> {"id", "name"},
   rows |-> << [id |-> Int_(1), name |-> Txt(<<"t", "e", "a">>)] >>]

CustomersKeyed ==
  [cols |-> {"customer_id", "region", "date"},
   rows |-> << [customer_id |-> Int_(7), region |-> Txt(<<"e", "a", "s", "t">>),
                date |-> Txt(<<"s", "o", "o", "n">>)],
               [customer_id |-> Int_(8), region |-> Txt(<<"w", "e", "s", "t", "-", "2">>),
                date |-> None] >>]

\* A product table that carries a customer_id column.
ProductsWithCustomer ==
  [cols |-> {"product_id", "customer_id"},
   rows |-> << [product_id |-> Int_(1), customer_id |-> Int_(7)] >>]

\* A product table with two rows of one product_id.
ProductsDuplicated ==
  [cols |-> {"product_id", "product_name"},
   rows |-> << [product_id |-> Int_(1), product_name |-> Txt(<<"t", "e", "a">>)],
               [product_id |-> Int_(1), product_name |-> Txt(<<"o", "a", "t">>)] >>]

SalesOnlyStores ==
  {("sales" :> TableOf(sch, rs)) : sch \in PlainSchemas, rs \in RowSeqs(MaxRows)}

JoinStores ==
  {("sales" :> TableOf(KeyedSchema, rs)) @@ ("products" :> ProductsKeyed)
     @@ ("customers" :> CustomersKeyed) : rs \in RowSeqs(MaxRows)}
  \cup {("sales" :> TableOf(KeyedSchema, rs)) @@ ("product" :> ProductsUnkeyed)
          @@ ("customer" :> CustomersKeyed) : rs \in RowSeqs(MaxRows)}
  \cup {("sales" :> TableOf(ScenarioSchema, rs)) @@ ("Products" :> ProductsKeyed)
          : rs \in RowSeqs(MaxRows)}
  \cup {("sale" :> TableOf(NoProductSchema, rs)) @@ ("products" :> ProductsKeyed)
          @@ ("customers" :> CustomersKeyed) : rs \in RowSeqs(1)}
  \cup {("transactions" :> TableOf(NameSchema, rs)) @@ ("product" :> ProductsKeyed)
          : rs \in RowSeqs(1)}
  \cup {("transactions" :> TableOf(ScenarioSchema, rs))
          @@ ("products" :> ProductsDuplicated) : rs \in RowSeqs(1)}
  \cup {("sale" :> TableOf(ScenarioSchema, rs)) @@ ("store" :> ProductsWithCustomer)
          @@ ("customers" :> CustomersKeyed) : rs \in RowSeqs(1)}

RenamedStores ==
  {(n :> TableOf(ScenarioSchema, rs)) : n \in {"Sales", "SALE", "transactions"},
                                         rs \in RowSeqs(1)}
  \cup {("transactions" :> TableOf(ScenarioSchema, rs))
          @@ ("sale" :> TableOf(ScenarioSchema, <<>>)) : rs \in RowSeqs(1)}
  \cup {("sales" :> TableOf(ScenarioSchema, rs))
          @@ ("transactions" :> TableOf(ScenarioSchema, <<>>)) : rs \in RowSeqs(1)}

NoSalesStores ==
  {<<>>, ("products" :> ProductsKeyed), ("orders" :> TableOf(ScenarioSchema, <<>>))}

Stores == SalesOnlyStores \cup JoinStores \cup RenamedStores \cup NoSalesStores

(***************************************************************************)
(* The state.                                                              *)
(***************************************************************************)
VARIABLES
  store,      \* the warehouse: table name -> table
  file,       \* the output file CUBED_FILE
  pc,         \* the position of the run of create_olap_cube
  conn,       \* the sqlite3 connection of ingest_warehouse
  found,      \* sales_table, product_table, customer_table
  frames,     \* sales_df, products_df, customers_df
  df,         \* the merged table ingest_warehouse returns
  columns,    \* the column names _extract_columns resolved
  derived,    \* df after _prepare_dataframe
  cube,       \* the cube, before the write
  outcome,    \* how the latest finished run ended, and the table it returned
  log,        \* what the latest run logged
  ranOn       \* history: the store the latest finished run read, and its write

vars == <<store, file, pc, conn, found, frames, df, columns, derived, cube,
          outcome, log, ranOn>>

NoFile == [exists |-> FALSE, complete |-> FALSE, rows |-> <<>>]
Written(cells) == [exists |-> TRUE, complete |-> TRUE, rows |-> cells]
\* A file cut short by a failed write; what it holds is left open.
Truncated == [exists |-> TRUE, complete |-> FALSE, rows |-> <<>>]

NoOutcome == [status |-> "none", error |-> "", value |-> <<>>]
Returned(cells) == [status |-> "returned", error |-> "", value |-> cells]
Raised(e) == [status |-> "raised", error |-> e, value |-> <<>>]

NoFound == [sales |-> NoName, product |-> NoName, customer |-> NoName]
NoFrames == [sales_df |-> EmptyFrame, products_df |-> EmptyFrame,
             customers_df |-> EmptyFrame]
NoRun == [ran |-> FALSE, store |-> <<>>, wrote |-> FALSE, replaced |-> FALSE]
\* wrote: the write of that run succeeded; replaced: and the file held
\* another table before it.
RanOn(db, wrote) ==
  [ran |-> TRUE, store |-> db, wrote |-> wrote,
   replaced |-> wrote /\ file.exists /\ file # Written(cube)]

LocalsCleared ==
  /\ conn' = "closed"
  /\ found' = NoFound
  /\ frames' = NoFrames
  /\ df' = EmptyFrame
  /\ columns' = NoColumns
  /\ derived' = <<>>
  /\ cube' = <<>>

Init ==
  /\ store \in Stores
  /\ file = NoFile
  /\ pc = "idle"
  /\ conn = "closed"
  /\ found = NoFound
  /\ frames = NoFrames
  /\ df = EmptyFrame
  /\ columns = NoColumns
  /\ derived = <<>>
  /\ cube = <<>>
  /\ outcome = NoOutcome
  /\ log = {}
  /\ ranOn = NoRun

(***************************************************************************)
(* ingest_warehouse.                                                       *)
(***************************************************************************)
\* Line 59: create_olap_cube is called and ingest_warehouse connects.
Connect ==
  /\ pc = "idle"
  /\ pc' = "find"
  /\ conn' = "open"
  /\ log' = {}
  /\ UNCHANGED <<store, file, found, frames, df, columns, derived, cube, outcome, ranOn>>

\* The run ends: the caller has its outcome, the locals are gone.
Ends(result, wrote) ==
  /\ pc' = "idle"
  /\ outcome' = result
  /\ ranOn' = RanOn(store, wrote)
  /\ LocalsCleared

\* (mutant) a missing sales table is taken for an empty one
FindTablesReturnsEmpty ==
  /\ pc = "find"
  /\ LET names == DOMAIN store
         sales_table == OrElse(FindTable(names, <<"sales", "sale">>),
                               FindTable(names, <<"transactions">>))
     IN IF sales_table = NoName
        THEN /\ Ends(Returned(<<>>), FALSE)
             /\ log' = log \cup {"warning: no data available"}
        ELSE /\ pc' = "read"
             /\ found' = [sales |-> sales_table,
                          product |-> FindTable(names, <<"product", "products", "store">>),
                          customer |-> FindTable(names, <<"customer", "customers">>)]
             /\ UNCHANGED <<conn, frames, df, columns, derived, cube, outcome, log,
                            ranOn>>
  /\ UNCHANGED <<store, file>>

\* Lines 60-67, 106-108: table discovery; without a sales table the
\* RuntimeError is logged and raised to the caller of create_olap_cube.
FindTables ==
  /\ pc = "find"
  /\ LET names == DOMAIN store
         sales_table == OrElse(FindTable(names, <<"sales", "sale">>),
                               FindTable(names, <<"transactions">>))
         product_table == FindTable(names, <<"product", "products", "store">>)
         customer_table == FindTable(names, <<"customer", "customers">>)
     IN IF sales_table = NoName
        THEN /\ Ends(Raised("RuntimeError"), FALSE)
             /\ log' = log \cup {"error: loading warehouse data"}
        ELSE /\ pc' = "read"
             /\ found' = [sales |-> sales_table, product |-> product_table,
                          customer |-> customer_table]
             /\ UNCHANGED <<conn, frames, df, columns, derived, cube, outcome, log,
                            ranOn>>
  /\ UNCHANGED <<store, file>>

\* Lines 69-79: the three reads.  Leaving the with block commits and keeps
\* the connection open.
ReadTables ==
  /\ pc = "read"
  /\ pc' = "merge"
  /\ frames' = [sales_df |-> ReadTable(store, found.sales),
                products_df |-> IF found.product # NoName
                                THEN ReadTable(store, found.product) ELSE EmptyFrame,
                customers_df |-> IF found.customer # NoName
                                 THEN ReadTable(store, found.customer) ELSE EmptyFrame]
  /\ UNCHANGED <<store, file, conn, found, df, columns, derived, cube, outcome, log,
                 ranOn>>

\* (mutant) no check for an empty table
MergeNoEmptyCheck ==
  /\ pc = "merge"
  /\ pc' = "extract"
  /\ df' = Merged(StripColumns(frames.sales_df), StripColumns(frames.products_df),
                  StripColumns(frames.customers_df))
  /\ conn' = "closed"
  /\ UNCHANGED <<store, file, found, frames, columns, derived, cube, outcome, log,
                 ranOn>>

\* Lines 81-104 and 349-352: the column names are stripped, the reference
\* tables joined, and ingest_warehouse returns (its connection goes with
\* its frame); an empty table ends the run with an empty result.
Merge ==
  /\ pc = "merge"
  /\ LET sales_df == StripColumns(frames.sales_df)
         products_df == StripColumns(frames.products_df)
         customers_df == StripColumns(frames.customers_df)
         merged == Merged(sales_df, products_df, customers_df)
         warned == MergeWarnings(sales_df, products_df, customers_df)
     IN IF IsEmpty(merged)
        THEN /\ Ends(Returned(<<>>), FALSE)
             /\ log' = log \cup warned \cup {"warning: no data available"}
        ELSE /\ pc' = "extract"
             /\ df' = merged
             /\ conn' = "closed"
             /\ log' = log \cup warned
             /\ UNCHANGED <<found, frames, columns, derived, cube, outcome, ranOn>>
  /\ UNCHANGED <<store, file>>

(***************************************************************************)
(* create_olap_cube after the ingest.                                      *)
(***************************************************************************)
\* Lines 354-362
Extract ==
  /\ pc = "extract"
  /\ pc' = "prepare"
  /\ columns' = ExtractColumns(df.cols)
  /\ UNCHANGED <<store, file, conn, found, frames, df, derived, cube, outcome, log,
                 ranOn>>

\* Lines 364-373
Prepare ==
  /\ pc = "prepare"
  /\ pc' = "aggregate"
  /\ derived' = PrepareDataframe(df, columns)
  /\ log' = IF HasBadDates(df, columns) THEN log \cup {"warning: invalid dates"}
            ELSE log
  /\ UNCHANGED <<store, file, conn, found, frames, df, columns, cube, outcome, ranOn>>

\* Line 375.  On a table without rows DataFrame.apply(axis=1) returns a
\* DataFrame, and assigning it to the one column average_selling_price
\* raises ValueError, which nothing catches.
Aggregate ==
  /\ pc = "aggregate"
  /\ IF derived = <<>>
     THEN Ends(Raised("ValueError"), FALSE)
     ELSE /\ pc' = "growth"
          /\ cube' = AggregateCube(derived)
          /\ UNCHANGED <<conn, found, frames, df, columns, derived, outcome, ranOn>>
  /\ UNCHANGED <<store, file, log>>

\* Line 376
Growth ==
  /\ pc = "growth"
  /\ pc' = "write"
  /\ cube' = ComputeGrowthAndFinalize(cube)
  /\ UNCHANGED <<store, file, conn, found, frames, df, columns, derived, outcome, log,
                 ranOn>>

\* (mutant) the rows are appended to the file
WriteCubeAppends ==
  /\ pc = "write"
  /\ file' = Written(file.rows \o cube)
  /\ log' = log \cup {"info: cube written"}
  /\ Ends(Returned(cube), TRUE)
  /\ UNCHANGED store

\* Lines 378-380, 384: the file is written and the cube returned.
WriteCube ==
  /\ pc = "write"
  /\ file' = Written(cube)
  /\ log' = log \cup {"info: cube written"}
  /\ Ends(Returned(cube), TRUE)
  /\ UNCHANGED store

\* (mutant) the failure of the write is raised to the caller
WriteFailsRaises ==
  /\ pc = "write"
  /\ file' \in {file, Truncated}
  /\ log' = log
  /\ Ends(Raised("OSError"), FALSE)
  /\ UNCHANGED store

\* Lines 381-384: to_csv raises; the file is as it was (it could not be
\* opened) or is cut short.  The error is logged and the cube returned.
WriteFails ==
  /\ pc = "write"
  /\ file' \in {file, Truncated}
  /\ log' = log \cup {"error: failed to write cube"}
  /\ Ends(Returned(cube), FALSE)
  /\ UNCHANGED store

(***************************************************************************)
(* The upstream pipelines change the warehouse between runs.               *)
(***************************************************************************)
HasSales == \E n \in DOMAIN store : LowerName(n) = "sales"

SalesName == CHOOSE n \in DOMAIN store : LowerName(n) = "sales"

\* New sales arrive.
AppendRow ==
  /\ pc = "idle"
  /\ HasSales
  /\ Len(store[SalesName].rows) < MaxRows
  /\ \E r \in SampleRows, sch \in PlainSchemas \cup {KeyedSchema} :
       /\ DOMAIN sch = store[SalesName].cols
       /\ store' = [store EXCEPT ![SalesName].rows =
                      Append(@, [c \in DOMAIN sch |-> r[sch[c]]])]
  /\ UNCHANGED <<file, pc, conn, found, frames, df, columns, derived, cube, outcome,
                 log, ranOn>>

\* The sales table is dropped.
DropSales ==
  /\ pc = "idle"
  /\ HasSales
  /\ store' = [n \in DOMAIN store \ {SalesName} |-> store[n]]
  /\ UNCHANGED <<file, pc, conn, found, frames, df, columns, derived, cube, outcome,
                 log, ranOn>>

Next ==
  \/ Connect
  \/ FindTables
  \/ ReadTables
  \/ Merge
  \/ Extract
  \/ Prepare
  \/ Aggregate
  \/ Growth
  \/ WriteCube
  \/ WriteFails
  \/ AppendRow
  \/ DropSales

Spec == Init /\ [][Next]_vars

(***************************************************************************)
(* Reading a cell.                                                         *)
(***************************************************************************)
\* Two numbers are the same number.
Equals(x, y) == x.k = "num" /\ y.k = "num" /\ x.p * y.q = y.p * x.q

IsText(v, str) == v.t = "str" /\ Text(v.s) = str

\* A run has finished and nothing has started since.
Finished == pc = "idle" /\ ranOn.ran

ScenarioStore == ("sales" :> TableOf(ScenarioSchema, <<ScenarioRow1, ScenarioRow2>>))

(***************************************************************************)
(* C1.  With the sales table of the scenario (two sales of product 1, of   *)
(* 100 in "west_1" on 2024-01-15 and of 150 in "West" on 2024-04-20) and   *)
(* no other table, a run returns exactly two cells, both of product "1"    *)
(* and region "West", for 2024Q1 and 2024Q2, with revenue 100 and 150 and  *)
(* growth 0 and 50.                                                        *)
(***************************************************************************)
C1_Scenario ==
  (Finished /\ ranOn.store = ScenarioStore) =>
    /\ outcome.status = "returned"
    /\ Len(outcome.value) = 2
    /\ \A i \in 1..2 : /\ IsText(outcome.value[i].product_name, "1")
                       /\ IsText(outcome.value[i].region, "West")
    /\ IsText(outcome.value[1].sale_quarter, "2024Q1")
    /\ IsText(outcome.value[2].sale_quarter, "2024Q2")
    /\ Equals(outcome.value[1].total_sales_revenue, Whole(100))
    /\ Equals(outcome.value[2].total_sales_revenue, Whole(150))
    /\ Equals(outcome.value[1].sales_growth_pct, Whole(0))
    /\ Equals(outcome.value[2].sales_growth_pct, Whole(50))

C1_Witness ==
  /\ Finished
  /\ ranOn.store = ScenarioStore
  /\ store = ScenarioStore
  /\ Len(outcome.value) = 2

(***************************************************************************)
(* C2.  Every row that survives the derivation, and every cell of the cube *)
(* (as computed, as returned and as written), has a region that is a       *)
(* non-empty text; the rows of the merged table whose region is missing or *)
(* empty after normalization are exactly the rows the derivation drops.    *)
(***************************************************************************)
HasRegion(r) == r.region.t = "str" /\ r.region.s # <<>>

AllHaveRegion(rows) == \A i \in DOMAIN rows : HasRegion(rows[i])

C2_RegionNonEmpty ==
  /\ AllHaveRegion(derived)
  /\ AllHaveRegion(cube)
  /\ AllHaveRegion(outcome.value)
  /\ AllHaveRegion(file.rows)
  /\ pc \in {"aggregate", "growth", "write"} =>
       Len(derived) =
         Cardinality({i \in DOMAIN df.rows :
                        LET g == Region(df.rows[i], df.cols, columns)
                        IN g.t = "str" /\ g.s # <<>>})

\* A row was dropped for its region while another reached the cube.
C2_Witness ==
  /\ pc = "write"
  /\ Len(derived) < Len(df.rows)
  /\ cube # <<>>
  /\ \E i \in DOMAIN df.rows : Region(df.rows[i], df.cols, columns) = Txt(<<>>)

(***************************************************************************)
(* C3.  In the returned cube every cell has a growth value (one per cell   *)
(* of its series), and the cell of the chronologically first quarter of    *)
(* each (product_name, region) series has growth 0.                        *)
(***************************************************************************)
ChronoBefore(a, b) ==
  PeriodLess(ParsePeriod(a.sale_quarter), ParsePeriod(b.sale_quarter))

FirstOfSeries(cells, i) ==
  \A j \in DOMAIN cells \ {i} :
    SameSeries(cells[j], cells[i]) => ChronoBefore(cells[i], cells[j])

C3_FirstGrowthZero ==
  (Finished /\ outcome.status = "returned") =>
    \A i \in DOMAIN outcome.value :
      /\ outcome.value[i].sales_growth_pct.k # "nan"
      /\ FirstOfSeries(outcome.value, i) =>
           Equals(outcome.value[i].sales_growth_pct, Whole(0))

\* A series of two quarters whose second cell has a growth that is not 0.
C3_Witness ==
  /\ Finished
  /\ outcome.status = "returned"
  /\ \E i, j \in DOMAIN outcome.value :
       /\ i # j
       /\ SameSeries(outcome.value[i], outcome.value[j])
       /\ FirstOfSeries(outcome.value, i)
       /\ ~IsZero(outcome.value[j].sales_growth_pct)

(***************************************************************************)
(* C4.  In every cell of the cube average_selling_price is undefined (NaN) *)
(* exactly when the summed units_sold of the cell is 0, and is the revenue *)
(* divided by the units otherwise; it is never an infinity, and a cell     *)
(* with 0 units does not stop the run.                                     *)
(***************************************************************************)
C4_AveragePrice ==
  /\ pc = "growth" =>
       \A i \in DOMAIN cube :
         /\ (cube[i].average_selling_price.k = "nan") <=> IsZero(cube[i].units_sold)
         /\ ~IsZero(cube[i].units_sold) =>
              Equals(Mul(cube[i].average_selling_price, cube[i].units_sold),
                     cube[i].total_sales_revenue)
  /\ \A i \in DOMAIN outcome.value :
       /\ outcome.value[i].average_selling_price.k \in {"num", "nan"}
       /\ (outcome.value[i].average_selling_price.k = "nan")
            <=> IsZero(outcome.value[i].units_sold)

\* A returned cube with a cell of 0 units beside a cell with units.
C4_Witness ==
  /\ Finished
  /\ outcome.status = "returned"
  /\ \E i, j \in DOMAIN outcome.value :
       /\ IsZero(outcome.value[i].units_sold)
       /\ outcome.value[i].average_selling_price.k = "nan"
       /\ ~IsZero(outcome.value[j].units_sold)
       /\ outcome.value[j].average_selling_price.k = "num"

(***************************************************************************)
(* C5.  A run on the store the run before it read ends as that run ended,  *)
(* with the same table returned, and, when both wrote the file, with the   *)
(* same file.                                                              *)
(***************************************************************************)
C5_Idempotent ==
  [][(pc # "idle" /\ pc' = "idle" /\ ranOn.ran /\ ranOn.store = store) =>
       /\ outcome' = outcome
       /\ (ranOn.wrote /\ ranOn'.wrote) => file' = file]_vars

\* The second run on an unchanged store is about to write the cube the
\* first run returned and wrote.
C5_Witness ==
  /\ pc = "write"
  /\ ranOn.ran
  /\ ranOn.store = store
  /\ ranOn.wrote
  /\ cube # <<>>
  /\ outcome = Returned(cube)
  /\ file = Written(cube)

(***************************************************************************)
(* C6.  While the store has no table named sales, sale or transactions, a  *)
(* run ends by raising RuntimeError (the MissingSourceError of the         *)
(* specification) to the caller, never reaches the write, and no step      *)
(* changes the output file.                                                *)
(***************************************************************************)
NoSalesTable ==
  \A n \in DOMAIN store : LowerName(n) \notin {"sales", "sale", "transactions"}

C6_MissingSales ==
  [][NoSalesTable =>
       /\ file' = file
       /\ pc' # "write"
       /\ (pc # "idle" /\ pc' = "idle") => outcome' = Raised("RuntimeError")]_vars

\* The run failed for the missing table and the file of an earlier run is
\* still there.
C6_Witness ==
  /\ Finished
  /\ NoSalesTable
  /\ ranOn.store = store
  /\ outcome = Raised("RuntimeError")
  /\ file.exists /\ file.complete /\ file.rows # <<>>

(***************************************************************************)
(* C7.  After a run that returned without raising, the output file holds   *)
(* the cube that run computed, never the cube of an earlier run.           *)
(***************************************************************************)
C7_Original ==
  (Finished /\ outcome.status = "returned") => file = Written(outcome.value)

\* The failing case: a run found the sales table empty and returned the empty
\* cube, and the output file still holds the cells an earlier run wrote.
C7_StaleFile ==
  /\ Finished
  /\ outcome = Returned(<<>>)
  /\ "warning: no data available" \in log
  /\ file \notin {NoFile, Truncated, Written(<<>>)}

MergedNow ==
  Merged(StripColumns(frames.sales_df), StripColumns(frames.products_df),
         StripColumns(frames.customers_df))

C9_EmptySource ==
  [][(pc = "merge" /\ MergedNow.rows = <<>>) =>
       /\ pc' = "idle"
       /\ outcome' = Returned(<<>>)
       /\ "warning: no data available" \in log']_vars

\* A run on a sales table without rows has returned the empty cube.
C9_Witness ==
  /\ Finished
  /\ ranOn.store = store
  /\ HasSales
  /\ store[SalesName].cols # {}
  /\ store[SalesName].rows = <<>>
  /\ outcome = Returned(<<>>)
  /\ "warning: no data available" \in log

(***************************************************************************)
(* The schema resolver alone: a run stands before _extract_columns with a  *)
(* merged table of one row whose columns are any MaxCols or fewer of the   *)
(* candidate names and of a name that is no candidate.                     *)
(***************************************************************************)
\* The candidate list of a concept with a fallback: its two lists, in the
\* order they are tried.
ProductNameList == ProductNameCandidates \o ProductNameProdCandidates
RegionList == RegionCandidates \o RegionProdCandidates

Range(f) == {f[i] : i \in DOMAIN f}

ColumnNames ==
  Range(SaleDateCandidates) \cup Range(UnitsCandidates) \cup Range(SaleAmountCandidates)
    \cup Range(CogsCandidates) \cup Range(ProductNameList) \cup Range(UnitPriceCandidates)
    \cup Range(RegionList) \cup {"sale_id"}

ColumnSets == {Range(f) : f \in [1..MaxCols -> ColumnNames]}

OneRowTable(cols) == [cols |-> cols, rows |-> << [c \in cols |-> Int_(1)] >>]

InitResolve ==
  \E cols \in ColumnSets :
    /\ store = ("sales" :> OneRowTable(cols))
    /\ file = NoFile
    /\ pc = "extract"
    /\ conn = "closed"
    /\ found = [NoFound EXCEPT !.sales = "sales"]
    /\ frames = [NoFrames EXCEPT !.sales_df = OneRowTable(cols)]
    /\ df = OneRowTable(cols)
    /\ columns = NoColumns
    /\ derived = <<>>
    /\ cube = <<>>
    /\ outcome = NoOutcome
    /\ log = {}
    /\ ranOn = NoRun

SpecResolve == InitResolve /\ [][Extract]_vars

\* got is the earliest name of list that is in cols, or no name when none is.
EarliestOf(list, cols, got) ==
  IF \A i \in DOMAIN list : list[i] \notin cols
  THEN got = NoName
  ELSE \E i \in DOMAIN list :
         /\ got = list[i]
         /\ list[i] \in cols
         /\ \A j \in 1..(i - 1) : list[j] \notin cols

(***************************************************************************)
(* C10.  For every table and each of the seven concepts, the resolver      *)
(* returns the earliest name of the concept's ordered candidate list that  *)
(* is a column of the table, and no name when none of them is.             *)
(***************************************************************************)
C10_Resolver ==
  pc = "prepare" =>
    /\ EarliestOf(SaleDateCandidates, df.cols, columns.sale_date_col)
    /\ EarliestOf(UnitsCandidates, df.cols, columns.units_col)
    /\ EarliestOf(SaleAmountCandidates, df.cols, columns.sale_amount_col)
    /\ EarliestOf(CogsCandidates, df.cols, columns.cogs_col)
    /\ EarliestOf(ProductNameList, df.cols, columns.product_name_col)
    /\ EarliestOf(UnitPriceCandidates, df.cols, columns.product_unitprice_col)
    /\ EarliestOf(RegionList, df.cols, columns.region_col)

\* Two candidates of one concept are columns, the earlier one was returned;
\* no candidate of another concept is a column, no name was returned.
C10_Witness ==
  /\ pc = "prepare"
  /\ df.cols = {"date", "sale_date"}
  /\ columns.sale_date_col = "sale_date"
  /\ columns.units_col = NoName

(***************************************************************************)
(* C11.  When a reference table is present (it has rows) and its key is    *)
(* not a column of both the sales table and the reference table, the merge *)
(* step skips that join: it logs the warning, the run does not raise, and  *)
(* the merged table has the sales rows and no column of that table.  With  *)
(* both joins skipped the merged table is the sales table itself.          *)
(***************************************************************************)
SalesNow == StripColumns(frames.sales_df)
ProductsNow == StripColumns(frames.products_df)
CustomersNow == StripColumns(frames.customers_df)

ProductJoinSkipped ==
  /\ ~IsEmpty(ProductsNow)
  /\ ~("product_id" \in SalesNow.cols /\ "product_id" \in ProductsNow.cols)

CustomerJoinSkipped ==
  /\ ~IsEmpty(CustomersNow)
  /\ ~("customer_id" \in SalesNow.cols /\ "customer_id" \in CustomersNow.cols)

\* The columns a join of ref under suffix can add to a table.
ColumnsFrom(ref, suffix) == ref.cols \cup {c \o suffix : c \in ref.cols}

\* t has one row per row of sales, with the values of sales in its columns.
KeepsSalesRows(t, sales) ==
  /\ sales.cols \subseteq t.cols
  /\ Len(t.rows) = Len(sales.rows)
  /\ \A i \in DOMAIN t.rows : \A c \in sales.cols : t.rows[i][c] = sales.rows[i][c]

C11_JoinSkipped ==
  [][(pc = "merge" /\ (ProductJoinSkipped \/ CustomerJoinSkipped)) =>
       /\ ProductJoinSkipped => "warning: no product_id key" \in log'
       /\ CustomerJoinSkipped => "warning: no customer_id key" \in log'
       /\ pc' = "idle" => outcome' = Returned(<<>>) /\ SalesNow.rows = <<>>
       /\ pc' = "extract" =>
            /\ KeepsSalesRows(df', SalesNow)
            /\ ProductJoinSkipped =>
                 df'.cols \subseteq SalesNow.cols \cup ColumnsFrom(CustomersNow, "_cust")
            /\ CustomerJoinSkipped =>
                 df'.cols \subseteq SalesNow.cols \cup ColumnsFrom(ProductsNow, "_prod")
            /\ (ProductJoinSkipped /\ CustomerJoinSkipped) => df' = SalesNow]_vars

\* The failing case: the sales table has no customer_id, the product table
\* has one, and the run has joined the customers through it without a
\* warning.
C11_JoinedThroughProducts ==
  /\ pc = "prepare"
  /\ "customer_id" \notin SalesNow.cols
  /\ ~IsEmpty(CustomersNow)
  /\ "warning: no customer_id key" \notin log
  /\ "region_cust" \in df.cols
  /\ df.rows # <<>>

(***************************************************************************)
(* C12.  As claimed: when a product table exists and product_id is not a   *)
(* column of the sales table, the run proceeds and product_name of every   *)
(* derived row is the text of the row's product_id.                        *)
(***************************************************************************)
NoProductKeyInSales ==
  /\ pc = "aggregate"
  /\ ~IsEmpty(ProductsNow)
  /\ "product_id" \notin SalesNow.cols

Unmatched(sales, ref, key, i) ==
  \A j \in DOMAIN ref.rows : ref.rows[j][key] # sales.rows[i][key]

C13_OnePerSalesRow ==
  pc = "extract" =>
    /\ KeepsSalesRows(df, SalesNow)
    /\ \A i \in DOMAIN SalesNow.rows :
         ("product_id" \in SalesNow.cols /\ "product_id" \in ProductsNow.cols
            /\ Unmatched(SalesNow, ProductsNow, "product_id", i)) =>
           \A c \in df.cols \ (SalesNow.cols \cup ColumnsFrom(CustomersNow, "_cust")) :
             df.rows[i][c] = NaN

\* The failing case: the merged table has more rows than the sales table.
C13_Duplicated ==
  /\ pc = "extract"
  /\ Len(df.rows) > Len(SalesNow.rows)

(***************************************************************************)
(* Derived rows against their source rows: when the region filter dropped  *)
(* no row, derived[i] is the row derived from df.rows[i].                  *)
(***************************************************************************)
Derived == pc = "aggregate" /\ Len(derived) = Len(df.rows)

\* A text that pd.to_numeric cannot parse.
NonNumeric(v) == v.t = "str" /\ ToNumeric(v) = NumNaN

\* The column cogs_total is computed from, and the one of sales_revenue.
CogsSource ==
  IF columns.product_unitprice_col # NoName THEN columns.product_unitprice_col
  ELSE columns.cogs_col

RevenueSource ==
  IF columns.sale_amount_col # NoName THEN columns.sale_amount_col
  ELSE columns.product_unitprice_col

(***************************************************************************)
(* C14.  A non-numeric text in the source column of cogs_total makes       *)
(* cogs_total and gross_profit of that row undefined; a non-numeric text   *)
(* in the source column of units_sold or of sales_revenue makes that value *)
(* 0.                                                                      *)
(***************************************************************************)
C14_CoercionFailures ==
  Derived =>
    \A i \in DOMAIN derived :
      /\ (CogsSource # NoName /\ NonNumeric(df.rows[i][CogsSource])) =>
           derived[i].cogs_total = NumNaN /\ derived[i].gross_profit = NumNaN
      /\ (columns.units_col # NoName /\ NonNumeric(df.rows[i][columns.units_col])) =>
           IsZero(derived[i].units_sold)
      /\ (RevenueSource # NoName /\ NonNumeric(df.rows[i][RevenueSource])) =>
           IsZero(derived[i].sales_revenue)

\* The failing case: the cost column holds a text that is no number, and
\* cogs_total of the row is 0, its gross_profit a number.
C14_CostBecomesZero ==
  /\ Derived
  /\ columns.product_unitprice_col = NoName
  /\ columns.cogs_col # NoName
  /\ \E i \in DOMAIN derived :
       /\ NonNumeric(df.rows[i][columns.cogs_col])
       /\ IsZero(derived[i].cogs_total)
       /\ derived[i].gross_profit.k = "num"

\* The number a source value counts as: its numeric value, and 0 when it is
\* null or cannot be parsed.
NumberOr0(v) == IF ToNumeric(v) = NumNaN THEN Whole(0) ELSE ToNumeric(v)

(***************************************************************************)
(* C15.  cogs_total of a derived row is unit price x units_sold when a     *)
(* unit-price column is resolved, even if a cost column is resolved too;   *)
(* else the value of the cost column when one is resolved; else undefined  *)
(* (NaN, not 0) for every row.                                             *)
(***************************************************************************)
C15_CogsTotal ==
  Derived =>
    \A i \in DOMAIN derived :
      IF columns.product_unitprice_col # NoName
      THEN Equals(derived[i].cogs_total,
                  Mul(NumberOr0(df.rows[i][columns.product_unitprice_col]),
                      derived[i].units_sold))
      ELSE IF columns.cogs_col # NoName
           THEN Equals(derived[i].cogs_total, NumberOr0(df.rows[i][columns.cogs_col]))
           ELSE derived[i].cogs_total = NumNaN

\* A unit price and a different cost are both resolved; the unit price won.
C15_Witness ==
  /\ Derived
  /\ columns.product_unitprice_col # NoName
  /\ columns.cogs_col # NoName
  /\ \E i \in DOMAIN derived :
       /\ df.rows[i][columns.cogs_col] = Int_(30)
       /\ Equals(derived[i].units_sold, Whole(2))
       /\ Equals(derived[i].cogs_total, Whole(80))

(***************************************************************************)
(* C16.  sales_revenue of a derived row is the value of the amount column  *)
(* when one is resolved, whatever the unit price; else unit price x        *)
(* units_sold when a unit-price column is resolved; else 0.                *)
(***************************************************************************)
C16_SalesRevenue ==
  Derived =>
    \A i \in DOMAIN derived :
      IF columns.sale_amount_col # NoName
      THEN Equals(derived[i].sales_revenue,
                  NumberOr0(df.rows[i][columns.sale_amount_col]))
      ELSE IF columns.product_unitprice_col # NoName
           THEN Equals(derived[i].sales_revenue,
                       Mul(NumberOr0(df.rows[i][columns.product_unitprice_col]),
                           derived[i].units_sold))
           ELSE derived[i].sales_revenue = Whole(0)

\* An amount of 100 and a unit price of 40 are both resolved: revenue 100.
C16_Witness ==
  /\ Derived
  /\ columns.sale_amount_col # NoName
  /\ columns.product_unitprice_col # NoName
  /\ \E i \in DOMAIN derived :
       /\ df.rows[i][columns.sale_amount_col] = Int_(100)
       /\ df.rows[i][columns.product_unitprice_col] = Int_(40)
       /\ Equals(derived[i].sales_revenue, Whole(100))

(***************************************************************************)
(* C17.  units_sold of a derived row is 1 for every row when no quantity   *)
(* column is resolved; when one is resolved it is the numeric value of the *)
(* column, and 0 for a value that is null or cannot be parsed.             *)
(***************************************************************************)
C17_UnitsSold ==
  Derived =>
    \A i \in DOMAIN derived :
      IF columns.units_col = NoName
      THEN derived[i].units_sold = Whole(1)
      ELSE LET v == df.rows[i][columns.units_col]
           IN CASE v.t = "num" -> derived[i].units_sold = Whole(v.n)
                [] NonNumeric(v) \/ IsMissing(v) -> derived[i].units_sold = Whole(0)
                [] OTHER -> derived[i].units_sold.k = "num"

\* Two derived rows of a table without a quantity column: 1 unit each.
C17_Witness ==
  /\ Derived
  /\ columns.units_col = NoName
  /\ Len(derived) = 2
  /\ derived[1].units_sold = Whole(1)
  /\ derived[2].units_sold = Whole(1)

(***************************************************************************)
(* C18.  A row whose sale date is missing or does not parse is never       *)
(* rejected for it: rows are dropped for their region only, and such a row *)
(* gets the marker "NaT" as sale_quarter.  The aggregator keeps the rows   *)
(* of the marker: for each of them the cube has exactly one cell with its  *)
(* product_name and region and the marker as quarter, a key apart from     *)
(* the real quarters' keys.                                                *)
(***************************************************************************)
UnknownQuarter == Txt(NaTLabel)

BadDate(v) == ~ToDatetime(v).ok

RegionKept(row) == KeepsRegion([region |-> Region(row, df.cols, columns)])

C18_UnknownQuarter ==
  /\ pc \in {"aggregate", "growth"} =>
       Len(derived) = Cardinality({i \in DOMAIN df.rows : RegionKept(df.rows[i])})
  /\ (Derived /\ columns.sale_date_col # NoName) =>
       \A i \in DOMAIN derived :
         BadDate(df.rows[i][columns.sale_date_col]) =>
           derived[i].sale_quarter = UnknownQuarter
  /\ pc = "growth" =>
       \A i \in DOMAIN derived :
         derived[i].sale_quarter = UnknownQuarter =>
           Cardinality({j \in DOMAIN cube :
                          SameKey(KeyOf(cube[j]), KeyOf(derived[i]))}) = 1

\* One product and region with a cell of a real quarter and a cell of the
\* unknown quarter.
C18_Witness ==
  /\ pc = "growth"
  /\ columns.sale_date_col # NoName
  /\ \E j, k \in DOMAIN cube :
       /\ LabelSame(cube[j].product_name, cube[k].product_name)
       /\ LabelSame(cube[j].region, cube[k].region)
       /\ cube[j].sale_quarter = UnknownQuarter
       /\ cube[k].sale_quarter # UnknownQuarter

(***************************************************************************)
(* The region normalization alone: a run stands before _prepare_dataframe  *)
(* with a merged table of one column, region, and two rows.  The first     *)
(* region is any text of MaxLen or fewer characters; the second differs    *)
(* from it in case only, or only after its first underscore or hyphen.     *)
(***************************************************************************)
RegionTexts ==
  UNION {[1..k -> {"n", "a", "N", "_", "-", " ", "\n"}] : k \in 0..MaxLen}

IsSeparator(c) == c \in {"_", "-"}

\* The part of s before its first underscore or hyphen.
RECURSIVE BeforeSeparator(_)
BeforeSeparator(s) ==
  IF s = <<>> \/ IsSeparator(Head(s)) THEN <<>>
  ELSE <<Head(s)>> \o BeforeSeparator(Tail(s))

\* The texts that differ from s in case only, or only after the first
\* separator of s.
Variants(s) ==
  {[i \in DOMAIN s |-> Upper(s[i])], [i \in DOMAIN s |-> Lower(s[i])]}
    \cup (IF \E i \in DOMAIN s : IsSeparator(s[i])
          THEN {SubSeq(s, 1, Len(BeforeSeparator(s)) + 1) \o t :
                  t \in {<<>>, <<"a">>, <<"\n", "a">>}}
          ELSE {})

RegionTable(s, t) ==
  [cols |-> {"region"}, rows |-> << [region |-> Txt(s)], [region |-> Txt(t)] >>]

InitRegion ==
  \E s \in RegionTexts : \E t \in Variants(s) :
    /\ store = ("sales" :> RegionTable(s, t))
    /\ file = NoFile
    /\ pc = "prepare"
    /\ conn = "closed"
    /\ found = [NoFound EXCEPT !.sales = "sales"]
    /\ frames = [NoFrames EXCEPT !.sales_df = RegionTable(s, t)]
    /\ df = RegionTable(s, t)
    /\ columns = ExtractColumns({"region"})
    /\ derived = <<>>
    /\ cube = <<>>
    /\ outcome = NoOutcome
    /\ log = {}
    /\ ranOn = NoRun

SpecRegion == InitRegion /\ [][Prepare]_vars

\* The region the normalization is to give a source text: trimmed, "nan"
\* missing, cut at the first separator, title-cased.
RegionOf(v) ==
  LET trimmed == Strip(v.s)
  IN IF trimmed = <<"n", "a", "n">> THEN NA
     ELSE Txt(Title(BeforeSeparator(trimmed)))

RegionsExpected ==
  SelectSeq([i \in DOMAIN df.rows |-> RegionOf(df.rows[i]["region"])],
            LAMBDA r : ~IsMissing(r) /\ r.s # <<>>)

(***************************************************************************)
(* C19.  The region of a derived row is its source text trimmed, with the  *)
(* text "nan" missing, cut at the first underscore or hyphen, title-cased  *)
(* (rows of a missing or empty region are dropped); and two source texts   *)
(* that differ only in case, or only after the first underscore or hyphen, *)
(* get the same region.                                                    *)
(***************************************************************************)
C19_RegionNormalized ==
  (pc = "aggregate" /\ df.cols = {"region"} /\ Len(df.rows) = 2) =>
    /\ [i \in DOMAIN derived |-> derived[i].region] = RegionsExpected
    /\ Len(derived) # 1
    /\ Len(derived) = 2 => derived[1].region = derived[2].region

\* The failing case: the text after the separator runs over a line break,
\* and the region of the derived row still holds the line break.
C19_SuffixKept ==
  /\ pc = "aggregate"
  /\ df.cols = {"region"}
  /\ \E i \in DOMAIN df.rows :
       df.rows[i]["region"] = Txt(<<"a", "_", "\n", "a">>)
  /\ \E i \in DOMAIN derived : derived[i].region = Txt(<<"A", "\n", "A">>)

(***************************************************************************)
(* C20.  After the aggregation the cube has exactly one cell per key       *)
(* (product_name, region, sale_quarter) of the derived rows: no two cells  *)
(* share a key, every row's key has a cell, every cell's key has a row.    *)
(* units_sold, total_sales_revenue, total_cogs and gross_profit of a cell  *)
(* are the sums of units_sold, sales_revenue, cogs_total and gross_profit  *)
(* over the derived rows of its key; a sum with an undefined term is       *)
(* undefined.                                                              *)
(***************************************************************************)
Add(x, y) == IF x.k = "nan" \/ y.k = "nan" THEN NumNaN
             ELSE Rat(x.p * y.q + y.p * x.q, x.q * y.q)

RECURSIVE SumOf(_, _)
SumOf(rows, col) ==
  IF rows = <<>> THEN Whole(0) ELSE Add(Head(rows)[col], SumOf(Tail(rows), col))

RowsOf(cell) == SelectSeq(derived, LAMBDA r : SameKey(KeyOf(r), KeyOf(cell)))

SameNumber(x, y) == Equals(x, y) \/ (x.k = "nan" /\ y.k = "nan")

C20_OneCellPerKey ==
  pc = "growth" =>
    /\ \A j, k \in DOMAIN cube : SameKey(KeyOf(cube[j]), KeyOf(cube[k])) => j = k
    /\ \A i \in DOMAIN derived :
         \E j \in DOMAIN cube : SameKey(KeyOf(cube[j]), KeyOf(derived[i]))
    /\ \A j \in DOMAIN cube :
         /\ RowsOf(cube[j]) # <<>>
         /\ SameNumber(cube[j].units_sold, SumOf(RowsOf(cube[j]), "units_sold"))
         /\ SameNumber(cube[j].total_sales_revenue,
                       SumOf(RowsOf(cube[j]), "sales_revenue"))
         /\ SameNumber(cube[j].total_cogs, SumOf(RowsOf(cube[j]), "cogs_total"))
         /\ SameNumber(cube[j].gross_profit, SumOf(RowsOf(cube[j]), "gross_profit"))

\* The failing case: the rows of a cell have an undefined cogs_total and
\* gross_profit, and the cell has 0 for both.
C20_UndefinedSumsToZero ==
  /\ pc = "growth"
  /\ \E j \in DOMAIN cube :
       /\ \A i \in DOMAIN RowsOf(cube[j]) :
            /\ RowsOf(cube[j])[i].cogs_total = NumNaN
            /\ RowsOf(cube[j])[i].gross_profit = NumNaN
            /\ ~IsZero(RowsOf(cube[j])[i].sales_revenue)
       /\ IsZero(cube[j].total_cogs)
       /\ IsZero(cube[j].gross_profit)

(***************************************************************************)
(* C21.  In the returned cube, a cell that has a cell of its series        *)
(* (product_name, region) immediately before it in quarter order, with a   *)
(* revenue that is not 0, has the growth (current - previous) / previous   *)
(* x 100, rounded to hundredths, previous being the revenue of that cell.  *)
(***************************************************************************)
\* Cell j is the one immediately before cell i in the quarter order of the
\* series of cell i.
PreviousInSeries(cells, j, i) ==
  /\ SameSeries(cells[j], cells[i])
  /\ ChronoBefore(cells[j], cells[i])
  /\ \A k \in DOMAIN cells :
       ~(SameSeries(cells[k], cells[i]) /\ ChronoBefore(cells[j], cells[k])
           /\ ChronoBefore(cells[k], cells[i]))

\* (cur - prev) / prev x 100 of two amounts in hundredths, to hundredths.
PercentChange(prev, cur) ==
  Round2(IF prev.p < 0 THEN Rat(0 - 100 * (cur.p - prev.p), 0 - prev.p)
         ELSE Rat(100 * (cur.p - prev.p), prev.p))

C21_GrowthWithinSeries ==
  (Finished /\ outcome.status = "returned") =>
    \A i, j \in DOMAIN outcome.value :
      (PreviousInSeries(outcome.value, j, i)
         /\ ~IsZero(outcome.value[j].total_sales_revenue)) =>
        Equals(outcome.value[i].sales_growth_pct,
               PercentChange(outcome.value[j].total_sales_revenue,
                             outcome.value[i].total_sales_revenue))

\* The failing case: a series whose product_name is undefined has revenue
\* 100 and then 150, and the growth of its second cell is 0.
C21_NoGrowthWithoutName ==
  /\ Finished
  /\ outcome.status = "returned"
  /\ \E i, j \in DOMAIN outcome.value :
       /\ PreviousInSeries(outcome.value, j, i)
       /\ IsMissing(outcome.value[i].product_name)
       /\ Equals(outcome.value[j].total_sales_revenue, Whole(100))
       /\ Equals(outcome.value[i].total_sales_revenue, Whole(150))
       /\ IsZero(outcome.value[i].sales_growth_pct)

(***************************************************************************)
(* The growth calculator alone: _compute_growth_and_finalize on a cube of  *)
(* at most MaxCells cells with distinct keys, in any order, whose quarter  *)
(* labels are of both period forms, "NaT", or no period at all.            *)
(***************************************************************************)
GrowthLabels ==
  {<<"2", "0", "2", "4", "Q", "1">>, <<"4", "Q", "2", "0", "2", "3">>, NaTLabel,
   <<"s", "o", "o", "n">>}

GrowthCells ==
  {[product_name |-> p,
    region |-> Txt(r),
    sale_quarter |-> Txt(l),
    units_sold |-> Whole(1),
    total_sales_revenue |-> Whole(100),
    total_cogs |-> Whole(0),
    gross_profit |-> Whole(0),
    average_selling_price |-> Whole(100),
    average_gross_profit |-> Whole(0)] :
     p \in {Txt(<<"A">>), None}, r \in {<<"E", "a", "s", "t">>, <<"W", "e", "s", "t">>},
     l \in GrowthLabels}

GrowthCubes ==
  {c \in UNION {[1..k -> GrowthCells] : k \in 1..MaxCells} :
     \A i, j \in DOMAIN c : i # j => c[i] # c[j]}

InitGrowth ==
  /\ store = ScenarioStore
  /\ file = NoFile
  /\ pc = "growth"
  /\ conn = "closed"
  /\ found = [NoFound EXCEPT !.sales = "sales"]
  /\ frames = [NoFrames EXCEPT !.sales_df = ScenarioStore["sales"]]
  /\ df = ScenarioStore["sales"]
  /\ columns = ExtractColumns(ScenarioStore["sales"].cols)
  /\ derived = <<>>
  /\ cube \in GrowthCubes
  /\ outcome = NoOutcome
  /\ log = {}
  /\ ranOn = NoRun

SpecGrowth == InitGrowth /\ [][Growth]_vars

(***************************************************************************)
(* C22.  The rows the growth calculator hands on are in the order of       *)
(* (product_name, region, quarter): the quarters of a series are in        *)
(* chronological order when every label of the cube parses as a period,    *)
(* and in the lexical order of the raw labels when some label does not.    *)
(***************************************************************************)
EveryLabelParses(cells) ==
  \A i \in DOMAIN cells : ParsePeriod(cells[i].sale_quarter).ok

QuarterBefore(a, b, chronological) ==
  IF chronological THEN ChronoBefore(a, b)
  ELSE LabelLess(a.sale_quarter, b.sale_quarter)

RowBefore(a, b, chronological) ==
  \/ LabelLess(a.product_name, b.product_name)
  \/ LabelSame(a.product_name, b.product_name) /\ LabelLess(a.region, b.region)
  \/ SameSeries(a, b) /\ QuarterBefore(a, b, chronological)

C22_RowsSorted ==
  pc = "write" =>
    \A i, j \in DOMAIN cube :
      i < j => ~RowBefore(cube[j], cube[i], EveryLabelParses(cube))

\* A cube with a label that is no period, in which a series has "2024Q1"
\* right before "4Q2023": the lexical order, against the chronological one.
C22_LexicalFallback ==
  /\ pc = "write"
  /\ ~EveryLabelParses(cube)
  /\ \E i \in DOMAIN cube :
       /\ i + 1 \in DOMAIN cube
       /\ SameSeries(cube[i], cube[i + 1])
       /\ IsText(cube[i].sale_quarter, "2024Q1")
       /\ IsText(cube[i + 1].sale_quarter, "4Q2023")

\* The other branch: every label parses and "4Q2023" is right before
\* "2024Q1" in a series.
C22_Chronological ==
  /\ pc = "write"
  /\ EveryLabelParses(cube)
  /\ \E i \in DOMAIN cube :
       /\ i + 1 \in DOMAIN cube
       /\ SameSeries(cube[i], cube[i + 1])
       /\ IsText(cube[i].sale_quarter, "4Q2023")
       /\ IsText(cube[i + 1].sale_quarter, "2024Q1")

(***************************************************************************)
(* C23.  The connection to the store is held during the table discovery    *)
(* and the reads only: whenever it is open the run is at one of these two  *)
(* steps, so it is released before the merge begins and is never held at   *)
(* a derivation, aggregation, growth or write step, whether the run ends   *)
(* well or not.                                                            *)
(***************************************************************************)
C23_HeldForReadsOnly == conn = "open" => pc \in {"find", "read"}

\* The failing case: the three tables are read, the merge is about to run
\* and the connection is still open.
C23_HeldWhileMerging ==
  /\ pc = "merge"
  /\ conn = "open"
  /\ frames.sales_df = ReadTable(store, found.sales)

\* What the code does keep: no connection from the column resolution on.
C23_ReleasedAfterIngest ==
  pc \in {"extract", "prepare", "aggregate", "growth", "write", "idle"} =>
    conn = "closed"

(***************************************************************************)
(* C24.  No cell of the returned cube has an undefined growth.  The first  *)
(* cell of a series has growth 0, and so has a later cell whose revenue    *)
(* and the revenue of the cell before it in the series are both 0; a later *)
(* cell with a revenue other than 0 after a revenue of 0 has a growth that *)
(* is not 0.                                                               *)
(***************************************************************************)
C24_GrowthDefined ==
  (Finished /\ outcome.status = "returned") =>
    \A i \in DOMAIN outcome.value :
      /\ outcome.value[i].sales_growth_pct.k # "nan"
      /\ FirstOfSeries(outcome.value, i) => IsZero(outcome.value[i].sales_growth_pct)
      /\ \A j \in DOMAIN outcome.value :
           (PreviousInSeries(outcome.value, j, i)
              /\ IsZero(outcome.value[j].total_sales_revenue)) =>
             (IsZero(outcome.value[i].sales_growth_pct)
                <=> IsZero(outcome.value[i].total_sales_revenue))

\* A series with revenue 0 and then 0 again: the second cell has growth 0.
C24_ZeroAfterZero ==
  /\ Finished
  /\ outcome.status = "returned"
  /\ \E i, j \in DOMAIN outcome.value :
       /\ PreviousInSeries(outcome.value, j, i)
       /\ IsZero(outcome.value[j].total_sales_revenue)
       /\ IsZero(outcome.value[i].total_sales_revenue)
       /\ IsZero(outcome.value[i].sales_growth_pct)

\* A series with revenue 0 and then 100: the growth of the second cell is
\* infinite.
C24_InfiniteAfterZero ==
  /\ Finished
  /\ outcome.status = "returned"
  /\ \E i, j \in DOMAIN outcome.value :
       /\ PreviousInSeries(outcome.value, j, i)
       /\ IsZero(outcome.value[j].total_sales_revenue)
       /\ Equals(outcome.value[i].total_sales_revenue, Whole(100))
       /\ outcome.value[i].sales_growth_pct.k = "inf"

\* The same revenues in a series without a product_name: growth 0.
C24_ZeroWithoutName ==
  /\ Finished
  /\ outcome.status = "returned"
  /\ \E i, j \in DOMAIN outcome.value :
       /\ PreviousInSeries(outcome.value, j, i)
       /\ IsMissing(outcome.value[i].product_name)
       /\ IsZero(outcome.value[j].total_sales_revenue)
       /\ ~IsZero(outcome.value[i].total_sales_revenue)
       /\ IsZero(outcome.value[i].sales_growth_pct)

(***************************************************************************)
(* C25.  When the merged table has none of the columns region,             *)
(* customer_region, customerregion, region_name, region_cust, region_prod, *)
(* the region derivation drops every row: the derived table is empty, no   *)
(* cube is built from it and the run gets to no growth or write step.      *)
(***************************************************************************)
RegionLike ==
  {"region", "customer_region", "customerregion", "region_name", "region_cust",
   "region_prod"}

NoRegionColumn == df.cols \cap RegionLike = {}

C25_NoRegionNoCell ==
  (pc \in {"aggregate", "growth", "write"} /\ NoRegionColumn) =>
    /\ derived = <<>>
    /\ cube = <<>>
    /\ pc = "aggregate"

\* A merged table with rows and without a region column, after the
\* derivation: nothing is left of it.
C25_AllRowsDropped ==
  /\ pc = "aggregate"
  /\ NoRegionColumn
  /\ df.rows # <<>>
  /\ columns.region_col = NoName
  /\ derived = <<>>

====
